---------------------------- MODULE Spec2Model ----------------------------
(***************************************************************************)
(* Synapse collaborative-whiteboard server: the room registry              *)
(* (server/src/room.rs), the protocol translator (server/src/protocol.rs)  *)
(* and the per-connection WebSocket handler with its two pump tasks        *)
(* (server/src/main.rs).                                                   *)
(*                                                                         *)
(* The registry operations are modelled statement by statement, with the   *)
(* tokio RwLock that guards the room map made explicit, so that calls of   *)
(* different tasks interleave exactly where the code allows it.  The       *)
(* tokio broadcast channel of a room is modelled as a bounded ring of      *)
(* retained messages plus a per-receiver cursor.                           *)
(***************************************************************************)
EXTENDS Integers, Sequences, FiniteSets, TLC

(***************************************************************************)
(* Bounds of the model.                                                    *)
(***************************************************************************)
\* Capacity of a room's broadcast channel.  The code asks for 1000
\* (room.rs:25); the model scales it down so that overflow is reachable.
Capacity == 2
\* Values stored in the channels up to which the inbound pumps publish.
MaxMsgs == 3
\* Registry calls the callers of the RoomManager API may start in all.
MaxCalls == 3
\* Longest identifier generate_user_color is applied to on its own.
MaxIdLen == 3
\* Calls of generate_user_color on its own.
MaxColorCalls == 2

\* Handler tasks: one per WebSocket connection (or per API caller).
Tasks == {"c1", "c2"}
\* Room identifiers taken from the request path.
RoomIds == {"r1", "r2"}

NoTask == "none"
NoChan == 0

(***************************************************************************)
(* Identifiers and colors (room.rs).                                       *)
(***************************************************************************)
IdA == "00000001"
IdB == "00000002"
UserIds == {IdA, IdB}

\* str::bytes: the bytes of an identifier.
Bytes(user_id) ==
    CASE user_id = IdA -> <<48, 48, 48, 48, 48, 48, 48, 49>>
      [] user_id = IdB -> <<48, 48, 48, 48, 48, 48, 48, 50>>
      [] OTHER -> <<>>

\* The identifier ws_handler generates for a connection (Uuid::new_v4):
\* distinct connections get distinct identifiers.
UuidOf(c) == IF c = "c1" THEN IdA ELSE IdB

colors ==
    << "#FF6B6B", "#4ECDC4", "#45B7D1", "#96CEB4", "#FFEAA7",
       "#DDA0DD", "#98D8C8", "#F7DC6F", "#BB8FCE", "#85C1E9" >>

RECURSIVE ByteSum(_)
ByteSum(s) == IF s = <<>> THEN 0 ELSE Head(s) + ByteSum(Tail(s))

\* Mutant of hash: the bytes are counted instead of summed.
hash_Counts(bytes) == Len(bytes)

\* room.rs:116: user_id.bytes().map(|b| b as usize).sum()
hash(bytes) == ByteSum(bytes)

\* room.rs:117: colors[hash % colors.len()], for an identifier given by its
\* bytes (arrays are indexed from 0 in the code and from 1 here).
ColorOfBytes(bytes) == colors[(hash(bytes) % Len(colors)) + 1]

generate_user_color(user_id) == ColorOfBytes(Bytes(user_id))

\* format!("User {}", &user_id[..8]), as bytes: "User " and the first eight
\* bytes of the identifier.
DefaultName(user_id) == <<85, 115, 101, 114, 32>> \o SubSeq(Bytes(user_id), 1, 8)

NewUserInfo(user_id) ==
    [id |-> user_id, name |-> DefaultName(user_id),
     color |-> generate_user_color(user_id)]

(***************************************************************************)
(* Server messages (protocol.rs).                                          *)
(***************************************************************************)
UserJoined(user) == [type |-> "UserJoined", user |-> user]
UserLeft(user_id) == [type |-> "UserLeft", user_id |-> user_id]
CursorUpdate(user_id, x, y) ==
    [type |-> "CursorUpdate", user_id |-> user_id, x |-> x, y |-> y]
DrawUpdate(user_id, operation) ==
    [type |-> "DrawUpdate", user_id |-> user_id, operation |-> operation]
RoomState(users) == [type |-> "RoomState", users |-> users]
YjsSync(user_id, data) == [type |-> "YjsSync", user_id |-> user_id, data |-> data]

(***************************************************************************)
(* Client messages (protocol.rs) and the frames a client may send.         *)
(***************************************************************************)
CursorMove(x, y) == [type |-> "CursorMove", x |-> x, y |-> y]
Draw(operation) == [type |-> "Draw", operation |-> operation]
SyncRequest == [type |-> "SyncRequest"]
UpdateName(name) == [type |-> "UpdateName", name |-> name]

\* The name a client asks for, as bytes: "Ann".
Ann == <<65, 110, 110>>

ClientMsgs ==
    { CursorMove(10, 20), Draw([op_type |-> "Clear"]), SyncRequest,
      UpdateName(Ann) }

\* Text frames: the JSON encoding of a client message, or text that is not one.
TextFrames == {[wellFormed |-> TRUE, value |-> m] : m \in ClientMsgs}
                  \cup {[wellFormed |-> FALSE, value |-> SyncRequest]}
\* Payloads of binary frames.
BinaryFrames == {<<1, 2>>}

\* Mutant of Decode: text that is no client message decodes as one.
Decode_Lenient(text) == << text.value >>

\* serde_json::from_str::<ClientMessage>(&text) (main.rs:61): the client
\* message, or nothing when the text does not decode.
Decode(text) == IF text.wellFormed THEN << text.value >> ELSE << >>

\* ServerMessage::from_client_message (protocol.rs:133-155)
from_client_message(msg, user_id) ==
    CASE msg.type = "CursorMove" -> CursorUpdate(user_id, msg.x, msg.y)
      [] msg.type = "Draw" -> DrawUpdate(user_id, msg.operation)
      [] msg.type = "SyncRequest" -> RoomState(<<>>)
      [] msg.type = "UpdateName" ->
            UserJoined([id |-> user_id, name |-> msg.name, color |-> ""])

VARIABLES
    rooms,      \* RoomManager.rooms: room id -> [tx, users]
    chans,      \* broadcast channels by id: [buf, tail]
    writer,     \* task holding the write guard of the RwLock, or NoTask
    readers,    \* tasks holding a read guard of the RwLock
    pc,         \* position of each handler task
    op,         \* the registry call a task is executing
    tx,         \* the Sender a task holds (channel id or NoChan)
    rx,         \* the Receiver a task holds: [chan, next] (from, ret: ghost)
    result,     \* value returned by a task's last get_room_users
    calls,      \* registry calls started so far by the API callers
    inb,        \* inbound pump task: "none", "running", "done"
    outb,       \* outbound pump task: "none", "running", or why it ended
    sockOpen,   \* whether the connection's transport still works
    sock,       \* frames written to the connection's socket, in order
    room_id,    \* the room a connection asked for in its request path
    joins,      \* ghost: completed join_room calls per room
    leaves,     \* ghost: completed leave_room calls per room and user
    lastCall,   \* ghost: per room and user, the last completed join/leave
    frame,      \* ghost: what a logged client sent last as a text frame
    colorArg,   \* bytes of the identifier generate_user_color was given last
    colorRet,   \* the color that call returned
    colorCalls  \* calls of generate_user_color on its own so far

vars ==
    << rooms, chans, writer, readers, pc, op, tx, rx, result, calls,
       inb, outb, sockOpen, sock, room_id, joins, leaves, lastCall, frame,
       colorArg, colorRet, colorCalls >>

regVars == << rooms, chans, writer, readers, pc, op, tx, rx, result, calls >>
connVars == << inb, outb, sockOpen, sock, room_id >>
colorVars == << colorArg, colorRet, colorCalls >>
\* What the handlers never read: the history the model keeps, and the
\* variables of the calls of generate_user_color on its own.
ghostVars == << joins, leaves, lastCall, frame, colorVars >>

\* No Receiver.  Besides its channel and the next position it will yield,
\* the model notes for a Receiver the channel's tail when it was created
\* (from) and when join_room returned it (ret).
NoRx == [chan |-> NoChan, next |-> 0, from |-> 0, ret |-> 0]
\* No call: op holds a call's arguments and locals (ch: the room's Sender,
\* rx: the Receiver join_room has created, member: noted by the model).
NoOp ==
    [kind |-> "none", room |-> "", user |-> "", ch |-> NoChan, rx |-> NoRx,
     member |-> FALSE]

\* The log of a client's text frames keeps whether the last one was "bad"
\* (a frame that does not decode) or "goodAfterBad" (a client message right
\* after a frame that did not decode), and NoFrame otherwise.
NoFrame == "none"

Init ==
    /\ rooms = <<>>
    /\ chans = <<>>
    /\ writer = NoTask
    /\ readers = {}
    /\ pc = [t \in Tasks |-> "idle"]
    /\ op = [t \in Tasks |-> NoOp]
    /\ tx = [t \in Tasks |-> NoChan]
    /\ rx = [t \in Tasks |-> NoRx]
    /\ result = [t \in Tasks |-> {}]
    /\ calls = 0
    /\ inb = [t \in Tasks |-> "none"]
    /\ outb = [t \in Tasks |-> "none"]
    /\ sockOpen = [t \in Tasks |-> TRUE]
    /\ sock = [t \in Tasks |-> <<>>]
    /\ room_id = [t \in Tasks |-> ""]
    /\ joins = [r \in RoomIds |-> 0]
    /\ leaves = [r \in RoomIds |-> [u \in UserIds |-> 0]]
    /\ lastCall = [r \in RoomIds |-> [u \in UserIds |-> "none"]]
    /\ frame = [t \in Tasks |-> NoFrame]
    /\ colorArg = << >>
    /\ colorRet = ""
    /\ colorCalls = 0

(***************************************************************************)
(* tokio::sync::broadcast, as the code uses it.                            *)
(***************************************************************************)
\* broadcast::channel(capacity): a fresh channel, its first Receiver dropped.
NewChannel == [buf |-> <<>>, tail |-> 0]

\* Number of tasks with a live Receiver of channel ch.
RxCount(ch) == Cardinality({t \in Tasks : rx[t].chan = ch \/ op[t].rx.chan = ch})

LastN(s, n) == IF Len(s) <= n THEN s ELSE SubSeq(s, Len(s) - n + 1, Len(s))

\* Mutant of SendOn: the value is stored even when there is no Receiver.
SendOn_Unconditional(cs, ch, by, room, m) ==
    IF ch \notin DOMAIN cs
    THEN cs
    ELSE [cs EXCEPT ![ch] =
            [buf |-> LastN(Append(@.buf, [pos |-> @.tail, by |-> by, room |-> room,
                                          ch |-> ch, msg |-> m]),
                           Capacity),
             tail |-> @.tail + 1]]

\* Sender::send: an error (nothing stored) without receivers; otherwise the
\* value takes the next position and the oldest retained value is overwritten
\* once the ring is full.
\* A stored value carries its position; the model also notes the task that
\* sent it, the room that task sent it to, and the channel it was sent on.
SendOn(cs, ch, by, room, m) ==
    IF ch \notin DOMAIN cs \/ RxCount(ch) = 0
    THEN cs
    ELSE [cs EXCEPT ![ch] =
            [buf |-> LastN(Append(@.buf, [pos |-> @.tail, by |-> by, room |-> room,
                                          ch |-> ch, msg |-> m]),
                           Capacity),
             tail |-> @.tail + 1]]

(***************************************************************************)
(* tokio::sync::RwLock guarding RoomManager.rooms.                         *)
(***************************************************************************)
\* Mutant of CanWrite: the write guard is handed out while the lock is held.
CanWrite_Unguarded == TRUE

\* rooms.write().await completes
CanWrite == writer = NoTask /\ readers = {}
\* rooms.read().await completes
CanRead == writer = NoTask

(***************************************************************************)
(* RoomManager::join_room (room.rs:42-69)                                  *)
(***************************************************************************)
\* Mutant of Room_new: every Room is built around the first channel.
Room_new_SharedChannel(ch) == [tx |-> 1, users |-> <<>>]

\* Room::new (room.rs:24-30): a Room around a channel of its own, no users.
Room_new(ch) == [tx |-> ch, users |-> <<>>]

\* line 47: let mut rooms = self.rooms.write().await;
JoinLock(t) ==
    /\ pc[t] = "j47"
    /\ CanWrite
    /\ writer' = t
    /\ pc' = [pc EXCEPT ![t] = "j49"]
    /\ UNCHANGED << rooms, chans, readers, op, tx, rx, result, calls >>
    /\ UNCHANGED connVars /\ UNCHANGED ghostVars

\* lines 49-52: rooms.entry(room_id).or_insert_with(Room::new)
JoinEntry(t) ==
    /\ pc[t] = "j49"
    /\ LET r == op[t].room IN
        IF r \in DOMAIN rooms
        THEN /\ op' = [op EXCEPT ![t].ch = rooms[r].tx]
             /\ UNCHANGED << rooms, chans >>
        ELSE /\ chans' = Append(chans, NewChannel)
             /\ rooms' = (r :> Room_new(Len(chans) + 1)) @@ rooms
             /\ op' = [op EXCEPT ![t].ch = rooms'[r].tx]
    /\ pc' = [pc EXCEPT ![t] = "j60"]
    /\ UNCHANGED << writer, readers, tx, rx, result, calls >>
    /\ UNCHANGED connVars /\ UNCHANGED ghostVars

\* lines 55-60: room.users.insert(user_id, user_info)
InsertUser(users, u) == (u :> NewUserInfo(u)) @@ users

JoinInsert(t) ==
    /\ pc[t] = "j60"
    /\ LET r == op[t].room IN
        rooms' = IF r \in DOMAIN rooms
                 THEN [rooms EXCEPT ![r].users = InsertUser(@, op[t].user)]
                 ELSE rooms
    /\ pc' = [pc EXCEPT ![t] = "j63"]
    /\ UNCHANGED << chans, writer, readers, op, tx, rx, result, calls >>
    /\ UNCHANGED connVars /\ UNCHANGED ghostVars

\* line 63: let _ = room.tx.send(ServerMessage::UserJoined { user: user_info });
JoinSend(t) ==
    /\ pc[t] = "j63"
    /\ chans' = SendOn(chans, op[t].ch, t, op[t].room, UserJoined(NewUserInfo(op[t].user)))
    /\ pc' = [pc EXCEPT ![t] = "j65"]
    /\ UNCHANGED << rooms, writer, readers, op, tx, rx, result, calls >>
    /\ UNCHANGED connVars /\ UNCHANGED ghostVars

\* Mutant of Subscribe: the Receiver is one of the first channel.
Subscribe_FirstChannel(ch) ==
    [chan |-> 1, next |-> chans[1].tail, from |-> chans[1].tail,
     ret |-> chans[1].tail]

\* Mutant of Subscribe: the Receiver starts at the oldest retained value.
Subscribe_FromOldest(ch) ==
    [chan |-> ch, next |-> chans[ch].tail - Len(chans[ch].buf),
     from |-> chans[ch].tail, ret |-> chans[ch].tail]

\* Sender::subscribe: a Receiver that sees only values sent from now on.
Subscribe(ch) ==
    [chan |-> ch, next |-> chans[ch].tail, from |-> chans[ch].tail,
     ret |-> chans[ch].tail]

\* lines 65-66: let tx = room.tx.clone(); let rx = room.tx.subscribe();
JoinSubscribe(t) ==
    /\ pc[t] = "j65"
    /\ op' = [op EXCEPT ![t].rx = Subscribe(op[t].ch)]
    /\ pc' = [pc EXCEPT ![t] = "j68"]
    /\ UNCHANGED << rooms, chans, writer, readers, tx, rx, result, calls >>
    /\ UNCHANGED connVars /\ UNCHANGED ghostVars

\* line 68: (tx, rx) is returned and the write guard dropped; the caller's
\* earlier handles, if any, are replaced.
JoinReturn(t) ==
    /\ pc[t] = "j68"
    /\ tx' = [tx EXCEPT ![t] = op[t].ch]
    /\ rx' = [rx EXCEPT ![t] = [op[t].rx EXCEPT !.ret = chans[op[t].ch].tail]]
    /\ writer' = IF writer = t THEN NoTask ELSE writer
    /\ pc' = [pc EXCEPT ![t] = "ready"]
    /\ op' = [op EXCEPT ![t] = NoOp]
    /\ joins' = [joins EXCEPT ![op[t].room] = @ + 1]
    /\ lastCall' = [lastCall EXCEPT ![op[t].room][op[t].user] = "join"]
    /\ UNCHANGED << rooms, chans, readers, result, calls, leaves, frame >>
    /\ UNCHANGED connVars /\ UNCHANGED colorVars

(***************************************************************************)
(* RoomManager::leave_room (room.rs:72-89)                                 *)
(***************************************************************************)
\* line 73: let mut rooms = self.rooms.write().await;
LeaveLock(t) ==
    /\ pc[t] = "l73"
    /\ CanWrite
    /\ writer' = t
    /\ pc' = [pc EXCEPT ![t] = "l75"]
    /\ UNCHANGED << rooms, chans, readers, op, tx, rx, result, calls >>
    /\ UNCHANGED connVars /\ UNCHANGED ghostVars

\* The end of leave_room: the guard is dropped.
LeaveDone(t) ==
    /\ writer' = IF writer = t THEN NoTask ELSE writer
    /\ pc' = [pc EXCEPT ![t] = "ready"]
    /\ op' = [op EXCEPT ![t] = NoOp]
    /\ leaves' = [leaves EXCEPT ![op[t].room][op[t].user] = @ + 1]
    /\ lastCall' = [lastCall EXCEPT ![op[t].room][op[t].user] = "leave"]
    /\ UNCHANGED << joins, frame >> /\ UNCHANGED colorVars

\* line 75: if let Some(room) = rooms.get_mut(room_id)
LeaveGet(t) ==
    /\ pc[t] = "l75"
    /\ LET r == op[t].room IN
        IF r \in DOMAIN rooms
        THEN /\ op' = [op EXCEPT ![t].ch = rooms[r].tx,
                                 ![t].member = op[t].user \in DOMAIN rooms[r].users]
             /\ pc' = [pc EXCEPT ![t] = "l76"]
             /\ UNCHANGED writer /\ UNCHANGED ghostVars
        ELSE LeaveDone(t)
    /\ UNCHANGED << rooms, chans, readers, tx, rx, result, calls >>
    /\ UNCHANGED connVars

\* Mutant of RemoveUser: the participant stays in the set.
RemoveUser_Keeps(users, u) == users

\* line 76: room.users.remove(user_id);
RemoveUser(users, u) == [k \in DOMAIN users \ {u} |-> users[k]]

LeaveRemove(t) ==
    /\ pc[t] = "l76"
    /\ LET r == op[t].room IN
        rooms' = IF r \in DOMAIN rooms
                 THEN [rooms EXCEPT ![r].users = RemoveUser(@, op[t].user)]
                 ELSE rooms
    /\ pc' = [pc EXCEPT ![t] = "l79"]
    /\ UNCHANGED << chans, writer, readers, op, tx, rx, result, calls >>
    /\ UNCHANGED connVars /\ UNCHANGED ghostVars

\* lines 79-81: let _ = room.tx.send(ServerMessage::UserLeft { user_id });
LeaveSend(t) ==
    /\ pc[t] = "l79"
    /\ chans' = SendOn(chans, op[t].ch, t, op[t].room, UserLeft(op[t].user))
    /\ pc' = [pc EXCEPT ![t] = "l84"]
    /\ UNCHANGED << rooms, writer, readers, op, tx, rx, result, calls >>
    /\ UNCHANGED connVars /\ UNCHANGED ghostVars

\* Mutant of RemoveIfEmpty: an empty room is left in the map.
RemoveIfEmpty_Never(rs, r) == rs

\* lines 84-87: if room.users.is_empty() { rooms.remove(room_id); }
RemoveIfEmpty(rs, r) ==
    IF r \in DOMAIN rs /\ DOMAIN rs[r].users = {}
    THEN [k \in DOMAIN rs \ {r} |-> rs[k]]
    ELSE rs

LeaveCleanup(t) ==
    /\ pc[t] = "l84"
    /\ rooms' = RemoveIfEmpty(rooms, op[t].room)
    /\ LeaveDone(t)
    /\ UNCHANGED << chans, readers, tx, rx, result, calls >>
    /\ UNCHANGED connVars

(***************************************************************************)
(* RoomManager::get_room_users (room.rs:92-98)                             *)
(***************************************************************************)
\* The Vec the call returns, as the set of its elements.
get_room_users(r) ==
    IF r \in DOMAIN rooms
    THEN {rooms[r].users[u] : u \in DOMAIN rooms[r].users}
    ELSE {}

\* line 93: let rooms = self.rooms.read().await;
GetLock(t) ==
    /\ pc[t] = "g93"
    /\ CanRead
    /\ readers' = readers \cup {t}
    /\ pc' = [pc EXCEPT ![t] = "g94"]
    /\ UNCHANGED << rooms, chans, writer, op, tx, rx, result, calls >>
    /\ UNCHANGED connVars /\ UNCHANGED ghostVars

\* lines 94-97: the snapshot is taken and the read guard dropped
GetRead(t) ==
    /\ pc[t] = "g94"
    /\ result' = [result EXCEPT ![t] = get_room_users(op[t].room)]
    /\ readers' = readers \ {t}
    /\ pc' = [pc EXCEPT ![t] = "ready"]
    /\ op' = [op EXCEPT ![t] = NoOp]
    /\ UNCHANGED << rooms, chans, writer, tx, rx, calls >>
    /\ UNCHANGED connVars /\ UNCHANGED ghostVars

(***************************************************************************)
(* Callers of the RoomManager API: any task may call any operation with    *)
(* any room and user identifier, concurrently with the other tasks.        *)
(***************************************************************************)
StartCall(t, kind, r, u, at) ==
    /\ pc[t] \in {"idle", "ready"}
    /\ calls < MaxCalls
    /\ calls' = calls + 1
    /\ op' = [op EXCEPT ![t] = [kind |-> kind, room |-> r, user |-> u,
                                ch |-> NoChan, rx |-> NoRx, member |-> FALSE]]
    /\ pc' = [pc EXCEPT ![t] = at]
    /\ UNCHANGED << rooms, chans, writer, readers, tx, rx, result >>
    /\ UNCHANGED connVars /\ UNCHANGED ghostVars

CallJoin(t) == \E r \in RoomIds, u \in UserIds : StartCall(t, "join", r, u, "j47")
CallLeave(t) == \E r \in RoomIds, u \in UserIds : StartCall(t, "leave", r, u, "l73")
CallGet(t) == \E r \in RoomIds : StartCall(t, "get", r, "", "g93")

JoinStep(t) ==
    \/ JoinLock(t) \/ JoinEntry(t) \/ JoinInsert(t) \/ JoinSend(t)
    \/ JoinSubscribe(t) \/ JoinReturn(t)
LeaveStep(t) ==
    LeaveLock(t) \/ LeaveGet(t) \/ LeaveRemove(t) \/ LeaveSend(t) \/ LeaveCleanup(t)
GetStep(t) == GetLock(t) \/ GetRead(t)

RegistryNext ==
    \E t \in Tasks :
        \/ CallJoin(t) \/ CallLeave(t) \/ CallGet(t)
        \/ JoinStep(t) \/ LeaveStep(t) \/ GetStep(t)

RegistrySpec == Init /\ [][RegistryNext]_vars


(***************************************************************************)
(* Properties of the registry (RegistrySpec).                              *)
(***************************************************************************)
\* Participants of room r by the calls completed so far: the identifiers
\* whose most recent completed call on r is a join_room.
Members(r) == {u \in UserIds : lastCall[r][u] = "join"}

\* Identifiers in the participant set the registry holds for r.
RoomUserIds(r) == IF r \in DOMAIN rooms THEN DOMAIN rooms[r].users ELSE {}

RECURSIVE SumOver(_, _)
SumOver(f, S) ==
    IF S = {} THEN 0
    ELSE LET x == CHOOSE y \in S : TRUE IN f[x] + SumOver(f, S \ {x})

\* Completed leave_room calls on room r.
LeavesOf(r) == SumOver(leaves[r], UserIds)

\* No join_room or leave_room is inside its critical section.
NoWriter == writer = NoTask

\* C2: whenever no join or leave is in progress on the map, a room identifier
\* is in the registry exactly if its participant set is non-empty: an entry
\* never has an empty set, and a room that has participants by the completed
\* calls is never missing.
C2_RoomPresentIffNonEmpty ==
    NoWriter =>
        \A r \in RoomIds :
            /\ (r \in DOMAIN rooms) <=> (get_room_users(r) # {})
            /\ (r \in DOMAIN rooms) <=> (Members(r) # {})

\* C2 witness: the last participant of a room has left and the room is gone,
\* while another room still holds a participant.
C2_Witness ==
    /\ NoWriter
    /\ \E r \in RoomIds :
        /\ joins[r] > 0 /\ LeavesOf(r) > 0 /\ r \notin DOMAIN rooms
        /\ \E r2 \in DOMAIN rooms : r2 # r /\ get_room_users(r2) # {}

\* C3 as stated: the number of participants get_room_users reports for a room
\* equals the completed joins minus the completed leaves on that room.
C3_CountIsJoinsMinusLeaves ==
    NoWriter =>
        \A r \in RoomIds : Cardinality(get_room_users(r)) = joins[r] - LeavesOf(r)

\* C3 amended: the number of participants get_room_users reports for a room
\* equals the number of identifiers whose most recent completed call on that
\* room is a join; it is never negative.
C3_CountIsCurrentMembers ==
    NoWriter =>
        \A r \in RoomIds :
            /\ Cardinality(get_room_users(r)) = Cardinality(Members(r))
            /\ Cardinality(get_room_users(r)) >= 0

\* C3 witness: an identifier has joined a room twice and the room counts it
\* once.
C3_Witness ==
    /\ NoWriter
    /\ \E r \in RoomIds :
        /\ joins[r] = 2 /\ LeavesOf(r) = 0
        /\ Cardinality(get_room_users(r)) = 1

\* A step of task t inside a leave_room whose room is missing or whose
\* participant was not a member when the call looked the room up.
AbsentLeaveStep(t) ==
    /\ pc'[t] # pc[t]
    /\ \/ pc[t] = "l75" /\ op[t].room \notin DOMAIN rooms
       \/ pc[t] \in {"l76", "l79", "l84"} /\ ~op[t].member

\* C9: leave_room for a missing room or for a participant that is not a
\* member changes neither the map nor any participant set and publishes
\* nothing; get_room_users never changes the registry and returns an empty
\* list for a missing room.
C9_AbsentLeaveIsNoOp ==
    [][ \A t \in Tasks :
          /\ AbsentLeaveStep(t) => (rooms' = rooms /\ chans' = chans)
          /\ (pc[t] = "g94" /\ pc'[t] # pc[t]) =>
                /\ rooms' = rooms /\ chans' = chans
                /\ op[t].room \notin DOMAIN rooms => result'[t] = {}
      ]_vars

WriteSection == {"j49", "j60", "j63", "j65", "j68", "l75", "l76", "l79", "l84"}

\* The registry agrees with the calls completed so far, in the order in
\* which they took the lock.
RegistryConsistent ==
    \A r \in RoomIds :
        /\ RoomUserIds(r) = Members(r)
        /\ (r \in DOMAIN rooms) <=> (Members(r) # {})
        /\ r \in DOMAIN rooms => rooms[r].tx \in DOMAIN chans

\* C10: join_room and leave_room exclude each other and every reader: at most
\* one task is inside a join or leave, and none while a get_room_users holds
\* its snapshot; and whatever a call finds when it has taken the lock, and
\* whatever is left when no call is running, is the registry that the
\* completed calls produce one after the other: no empty room, no room
\* without its channel, no participant of a call that has not returned.
C10_JoinLeaveAtomic ==
    /\ Cardinality({t \in Tasks : pc[t] \in WriteSection}) <= 1
    /\ (\E t \in Tasks : pc[t] \in WriteSection) => (\A t \in Tasks : pc[t] # "g94")
    /\ (\E t \in Tasks : pc[t] \in {"j49", "l75", "g94"}) => RegistryConsistent
    /\ (\A t \in Tasks : pc[t] \in {"idle", "ready"}) => RegistryConsistent

\* C10 witness: the leave of a room's last participant is about to remove the
\* room while another task waits to join the same room.
C10_Witness ==
    \E t1, t2 \in Tasks :
        /\ pc[t1] = "l84" /\ pc[t2] = "j47"
        /\ op[t1].room = op[t2].room
        /\ RoomUserIds(op[t1].room) = {}
        /\ op[t1].room \in DOMAIN rooms

(***************************************************************************)
(* ws_handler (main.rs:32-102)                                             *)
(***************************************************************************)
\* lines 38-46: a connection for room r arrives; the handler draws a fresh
\* identifier and calls join_room.
Connect(c) ==
    \E r \in RoomIds :
        /\ pc[c] = "idle"
        /\ room_id' = [room_id EXCEPT ![c] = r]
        /\ op' = [op EXCEPT ![c] = [kind |-> "join", room |-> r, user |-> UuidOf(c),
                                    ch |-> NoChan, rx |-> NoRx, member |-> FALSE]]
        /\ pc' = [pc EXCEPT ![c] = "j47"]
        /\ UNCHANGED << rooms, chans, writer, readers, tx, rx, result, calls >>
        /\ UNCHANGED << inb, outb, sockOpen, sock >> /\ UNCHANGED ghostVars

\* lines 49-101: both pump tasks are spawned and the handler returns; of the
\* two Senders the handler held, the clone moved into the inbound task remains.
Spawn(c) ==
    /\ pc[c] = "ready"
    /\ pc' = [pc EXCEPT ![c] = "served"]
    /\ inb' = [inb EXCEPT ![c] = "running"]
    /\ outb' = [outb EXCEPT ![c] = "running"]
    /\ UNCHANGED << rooms, chans, writer, readers, op, tx, rx, result, calls >>
    /\ UNCHANGED << sockOpen, sock, room_id >> /\ UNCHANGED ghostVars

\* The transport of a connection breaks (peer gone, network error).
SocketFail(c) ==
    /\ pc[c] = "served"
    /\ sockOpen[c]
    /\ sockOpen' = [sockOpen EXCEPT ![c] = FALSE]
    /\ UNCHANGED regVars
    /\ UNCHANGED << inb, outb, sock, room_id >> /\ UNCHANGED ghostVars

(***************************************************************************)
(* The inbound pump task (main.rs:56-89)                                   *)
(***************************************************************************)
\* Values stored in all channels so far.
RECURSIVE TotalSent(_)
TotalSent(cs) == IF cs = <<>> THEN 0 ELSE Head(cs).tail + TotalSent(Tail(cs))

\* The pumps publish while the number of stored values is below the bound.
CanPublish(c) == tx[c] \in DOMAIN chans /\ TotalSent(chans) < MaxMsgs

\* The task ends: its Session clone and its Sender are dropped.
InboundExit(c) ==
    /\ inb' = [inb EXCEPT ![c] = "done"]
    /\ tx' = [tx EXCEPT ![c] = NoChan]

\* lines 59-68: a text frame; a client message that decodes is translated
\* and published, anything else is dropped.
InboundTextFrame(c, text) ==
    /\ inb[c] = "running"
    /\ CanPublish(c)
    /\ chans' = IF Decode(text) # << >>
                THEN SendOn(chans, tx[c], c, room_id[c],
                            from_client_message(Decode(text)[1], UuidOf(c)))
                ELSE chans
    /\ UNCHANGED << rooms, writer, readers, pc, op, tx, rx, result, calls >>
    /\ UNCHANGED connVars /\ UNCHANGED << joins, leaves, lastCall >>
    /\ UNCHANGED colorVars

InboundTextOf(c, frames) ==
    \E text \in frames : InboundTextFrame(c, text) /\ UNCHANGED frame

InboundText(c) == InboundTextOf(c, TextFrames)

\* lines 69-76: a binary frame is relayed as YjsSync
InboundBinary(c) ==
    \E bin \in BinaryFrames :
        /\ inb[c] = "running"
        /\ CanPublish(c)
        /\ chans' = SendOn(chans, tx[c], c, room_id[c], YjsSync(UuidOf(c), bin))
        /\ UNCHANGED << rooms, writer, readers, pc, op, tx, rx, result, calls >>
        /\ UNCHANGED connVars /\ UNCHANGED ghostVars

\* lines 77-81: a ping is answered; the loop ends when the pong cannot be sent
InboundPing(c) ==
    /\ inb[c] = "running"
    /\ IF sockOpen[c]
       THEN UNCHANGED << inb, tx >>
       ELSE InboundExit(c)
    /\ UNCHANGED << rooms, chans, writer, readers, pc, op, rx, result, calls >>
    /\ UNCHANGED << outb, sockOpen, sock, room_id >> /\ UNCHANGED ghostVars

\* lines 82-85: a close frame ends the loop
InboundClose(c) ==
    /\ inb[c] = "running"
    /\ InboundExit(c)
    /\ UNCHANGED << rooms, chans, writer, readers, pc, op, rx, result, calls >>
    /\ UNCHANGED << outb, sockOpen, sock, room_id >> /\ UNCHANGED ghostVars

\* line 57: the stream ends or yields an error once the transport is broken
InboundEnd(c) ==
    /\ inb[c] = "running"
    /\ ~sockOpen[c]
    /\ InboundExit(c)
    /\ UNCHANGED << rooms, chans, writer, readers, pc, op, rx, result, calls >>
    /\ UNCHANGED << outb, sockOpen, sock, room_id >> /\ UNCHANGED ghostVars

(***************************************************************************)
(* The outbound pump task (main.rs:92-99)                                  *)
(***************************************************************************)
\* Whether every Sender of channel ch is gone.
Closed(ch) ==
    /\ \A r \in DOMAIN rooms : rooms[r].tx # ch
    /\ \A t \in Tasks : tx[t] # ch

\* Mutant of Recv: the retained values are handed out newest first.
Recv_NewestFirst(r) ==
    LET ch == chans[r.chan]
        oldest == ch.tail - Len(ch.buf)
    IN  IF r.next < oldest THEN [kind |-> "Lagged"]
        ELSE IF r.next < ch.tail
             THEN [kind |-> "Ok", slot |-> ch.buf[Len(ch.buf) - (r.next - oldest)]]
        ELSE [kind |-> "Pending"]

\* Receiver::recv on receiver r: the oldest value not yet seen; Lagged when
\* that value has been overwritten; Closed when nothing is left and no Sender
\* remains; otherwise the call waits.
Recv(r) ==
    LET ch == chans[r.chan]
        oldest == ch.tail - Len(ch.buf)
    IN  IF r.next < oldest THEN [kind |-> "Lagged"]
        ELSE IF r.next < ch.tail
             THEN [kind |-> "Ok", slot |-> ch.buf[r.next - oldest + 1]]
        ELSE IF Closed(r.chan) THEN [kind |-> "Closed"]
        ELSE [kind |-> "Pending"]

\* Mutant of Advance: the cursor stays on the value just received.
Advance_Stays(r) == r

\* Receiver::recv, on success: the cursor moves past the value received.
Advance(r) == [r EXCEPT !.next = @ + 1]

\* The task ends: its Session clone and its Receiver are dropped.
OutboundExit(c, why) ==
    /\ outb' = [outb EXCEPT ![c] = why]
    /\ rx' = [rx EXCEPT ![c] = NoRx]
    /\ UNCHANGED sock

\* lines 93-98: one turn of the loop
OutboundStep(c) ==
    /\ outb[c] = "running"
    /\ LET got == Recv(rx[c]) IN
        /\ got.kind # "Pending"
        /\ IF got.kind = "Ok" /\ sockOpen[c]
           THEN /\ rx' = [rx EXCEPT ![c] = Advance(@)]
                /\ sock' = [sock EXCEPT ![c] = Append(@, got.slot)]
                /\ UNCHANGED outb
           ELSE OutboundExit(c, IF got.kind = "Ok" THEN "write failed" ELSE got.kind)
    /\ UNCHANGED << rooms, chans, writer, readers, pc, op, tx, result, calls >>
    /\ UNCHANGED << inb, sockOpen, room_id >> /\ UNCHANGED ghostVars

Next ==
    \E c \in Tasks :
        \/ Connect(c) \/ JoinStep(c) \/ Spawn(c) \/ SocketFail(c)
        \/ InboundText(c) \/ InboundBinary(c) \/ InboundPing(c)
        \/ InboundClose(c) \/ InboundEnd(c)
        \/ OutboundStep(c)

Spec == Init /\ [][Next]_vars

(***************************************************************************)
(* The same server with clients that only move their cursors: every text   *)
(* frame is a CursorMove or malformed, and no binary frame is sent.        *)
(***************************************************************************)
CursorFrames == {f \in TextFrames : ~f.wellFormed \/ f.value.type = "CursorMove"}

InboundCursor(c) == InboundTextOf(c, CursorFrames)

CursorNext ==
    \E c \in Tasks :
        \/ Connect(c) \/ JoinStep(c) \/ Spawn(c) \/ SocketFail(c)
        \/ InboundCursor(c) \/ InboundPing(c)
        \/ InboundClose(c) \/ InboundEnd(c)
        \/ OutboundStep(c)

CursorSpec == Init /\ [][CursorNext]_vars

(***************************************************************************)
(* Scheduling.  The runtime runs every task that can make progress: a      *)
(* handler that can take the lock or return, an outbound pump whose recv   *)
(* has a result, an inbound pump whose stream has failed.  What the        *)
(* clients send, and whether a transport breaks, is up to the environment. *)
(***************************************************************************)
Fairness ==
    \A c \in Tasks :
        /\ WF_vars(JoinStep(c))
        /\ WF_vars(Spawn(c))
        /\ WF_vars(OutboundStep(c))
        /\ WF_vars(InboundEnd(c))

FairCursorSpec == CursorSpec /\ Fairness

\* Whether a pump task of connection c has ended.
InboundDone(c) == inb[c] = "done"
OutboundDone(c) == outb[c] \notin {"none", "running"}

(***************************************************************************)
(* Properties of the connection sessions.                                  *)
(***************************************************************************)
\* Completed leave_room(room_id, user_id) calls for connection c's participant.
LeaveCalls(c) == IF room_id[c] \in RoomIds THEN leaves[room_id[c]][UuidOf(c)] ELSE 0

\* The session of connection c is Closed: one of its pumps has ended.
SessionClosed(c) == InboundDone(c) \/ OutboundDone(c)

\* C1: once a connection's session is Closed, leave_room is invoked for its
\* participant, exactly once: eventually once, and never twice.
C1_LeaveExactlyOnce ==
    \A c \in Tasks :
        /\ [](LeaveCalls(c) <= 1)
        /\ SessionClosed(c) ~> (LeaveCalls(c) = 1)

\* C4: when one pump of a connection has ended, the other pump of that
\* connection eventually ends too, whether or not anything is published.
C4_ClosingCancelsBothPumps ==
    \A c \in Tasks :
        /\ InboundDone(c) ~> OutboundDone(c)
        /\ OutboundDone(c) ~> InboundDone(c)

\* Room r is in the registry and every connection that asked for it has ended
\* both of its pumps.
RoomAbandoned(r) ==
    /\ r \in DOMAIN rooms
    /\ \E c \in Tasks : room_id[c] = r
    /\ \A c \in Tasks : room_id[c] = r => InboundDone(c) /\ OutboundDone(c)

\* C5: after the last connected participant of a room has disconnected, the
\* room is eventually removed from the registry (get_room_users is then
\* empty), and a join that then takes the lock for that room identifier
\* finds no room with earlier participants.
C5_AbandonedRoomRemoved ==
    \A r \in RoomIds :
        /\ RoomAbandoned(r) ~> (r \notin DOMAIN rooms /\ get_room_users(r) = {})
        /\ [](\A c \in Tasks :
                (pc[c] = "j49" /\ op[c].room = r /\ RoomAbandoned(r))
                    => get_room_users(r) = {})

\* The next recv of connection c's outbound pump reports an overflow.
Lagging(c) == outb[c] = "running" /\ Recv(rx[c]).kind = "Lagged"

\* C6: an overflow of a subscriber's backlog is not fatal: the outbound pump
\* of that subscriber keeps running (and so goes on to deliver what is
\* published afterwards).
C6_OverflowNotFatal ==
    [][ \A c \in Tasks : Lagging(c) => outb'[c] = "running" ]_vars

\* C7: every recipient's socket carries the values of its room's channel in
\* the order they were published: positions only grow along the socket, so
\* two events of one sender are never written in the opposite order.
C7_PublishOrderKept ==
    \A c \in Tasks :
        \A i, j \in 1..Len(sock[c]) :
            i < j => sock[c][i].pos < sock[c][j].pos

\* C7 witness: a recipient's socket carries two events that one other
\* connection's inbound pump published.
C7_Witness ==
    \E c \in Tasks :
        \E i, j \in 1..Len(sock[c]) :
            /\ i < j
            /\ sock[c][i].by = sock[c][j].by /\ sock[c][i].by # c
            /\ sock[c][i].msg.type = "CursorUpdate"
            /\ sock[c][j].msg.type = "CursorUpdate"

\* Positions a channel can reach within the bounds.
Positions == 0..(MaxMsgs + Cardinality(Tasks))

\* The CursorUpdate at position p of b's channel was published by another
\* connection after b subscribed, and b's Receiver has not received it.
InFlight(b, p) ==
    /\ rx[b].chan # NoChan
    /\ rx[b].next <= p
    /\ \E k \in 1..Len(chans[rx[b].chan].buf) :
        LET slot == chans[rx[b].chan].buf[k] IN
            slot.pos = p /\ slot.by # b /\ slot.msg.type = "CursorUpdate"

Delivered(b, p) == \E i \in 1..Len(sock[b]) : sock[b][i].pos = p

\* b's backlog has overflowed or b's transport has failed.
Excused(b) == ~sockOpen[b] \/ Lagging(b) \/ outb[b] = "Lagged"

\* Every socket carries each position at most once, and every CursorUpdate
\* on it carries its sender's identifier and the coordinates sent.
WrittenOnce ==
    \A b \in Tasks :
        \A i, j \in 1..Len(sock[b]) :
            /\ (sock[b][i].pos = sock[b][j].pos) => i = j
            /\ sock[b][i].msg.type = "CursorUpdate" =>
                    sock[b][i].msg = CursorUpdate(UuidOf(sock[b][i].by), 10, 20)

\* C8: an event that A publishes after B subscribed is eventually written to
\* B's socket, unless B's backlog overflows or B's socket fails; and it is
\* written once, as the CursorUpdate with A's identifier and coordinates.
\* Eventual delivery is stated in two parts: an event waiting for B stops
\* waiting only by being written to B's socket (or by overflow or failure),
\* and B does not keep events waiting forever.
C8_DeliveredExactlyOnce ==
    /\ []WrittenOnce
    /\ [][ \A b \in Tasks : \A p \in Positions :
            InFlight(b, p) =>
                (InFlight(b, p)' \/ Delivered(b, p)' \/ Excused(b)') ]_vars
    /\ \A b \in Tasks :
            []<>((\A p \in Positions : ~InFlight(b, p)) \/ Excused(b))

\* C8 witness: B's socket carries the CursorUpdate of another connection.
C8_Witness ==
    \E b \in Tasks :
        \E i \in 1..Len(sock[b]) :
            /\ sock[b][i].by # b
            /\ sock[b][i].msg = CursorUpdate(UuidOf(sock[b][i].by), 10, 20)
            /\ sockOpen[b] /\ outb[b] = "running"


(***************************************************************************)
(* Holders of the handles join_room returns.  A caller of the RoomManager  *)
(* API uses its Sender and its Receiver the way ws_handler's pumps do,     *)
(* between its calls: it publishes through the Sender and writes what its  *)
(* Receiver yields to its socket.                                          *)
(***************************************************************************)
\* tx.send(server_msg) by the holder of a Sender (main.rs:66)
HandleSend(t) ==
    /\ pc[t] = "ready"
    /\ CanPublish(t)
    /\ chans' = SendOn(chans, tx[t], t, room_id[t],
                       from_client_message(CursorMove(10, 20), UuidOf(t)))
    /\ UNCHANGED << rooms, writer, readers, pc, op, tx, rx, result, calls >>
    /\ UNCHANGED connVars /\ UNCHANGED ghostVars

\* rx.recv().await and the write of what it yields (main.rs:93-98); the
\* Receiver is dropped when recv fails.
HandleRecv(t) ==
    /\ pc[t] = "ready"
    /\ rx[t].chan # NoChan
    /\ LET got == Recv(rx[t]) IN
        /\ got.kind # "Pending"
        /\ IF got.kind = "Ok"
           THEN /\ rx' = [rx EXCEPT ![t] = Advance(@)]
                /\ sock' = [sock EXCEPT ![t] = Append(@, got.slot)]
           ELSE /\ rx' = [rx EXCEPT ![t] = NoRx]
                /\ UNCHANGED sock
    /\ UNCHANGED << rooms, chans, writer, readers, pc, op, tx, result, calls >>
    /\ UNCHANGED << inb, outb, sockOpen, room_id >> /\ UNCHANGED ghostVars

\* A holder joins a room under its own identifier, as ws_handler does
\* (main.rs:38-46), and leaves the room it joined last.
HolderCall(t, kind, r, at) ==
    /\ pc[t] \in {"idle", "ready"}
    /\ calls < MaxCalls
    /\ calls' = calls + 1
    /\ room_id' = [room_id EXCEPT ![t] = r]
    /\ op' = [op EXCEPT ![t] = [kind |-> kind, room |-> r, user |-> UuidOf(t),
                                ch |-> NoChan, rx |-> NoRx, member |-> FALSE]]
    /\ pc' = [pc EXCEPT ![t] = at]
    /\ UNCHANGED << rooms, chans, writer, readers, tx, rx, result >>
    /\ UNCHANGED << inb, outb, sockOpen, sock >> /\ UNCHANGED ghostVars

\* Which task calls first and which room it asks for is immaterial: the
\* first call is c1's, for r1.
HolderJoin(t) ==
    \E r \in RoomIds :
        /\ calls = 0 => (t = "c1" /\ r = "r1")
        /\ HolderCall(t, "join", r, "j47")
HolderLeave(t) == room_id[t] \in RoomIds /\ HolderCall(t, "leave", room_id[t], "l73")

HandleNext ==
    \E t \in Tasks :
        \/ HolderJoin(t) \/ HolderLeave(t)
        \/ JoinStep(t) \/ LeaveStep(t)
        \/ HandleSend(t) \/ HandleRecv(t)

HandleSpec == Init /\ [][HandleNext]_vars

(***************************************************************************)
(* Properties of rooms and their channels.                                 *)
(***************************************************************************)
\* The channel of the Room the registry holds for r, or NoChan.
ChannelOf(r) == IF r \in DOMAIN rooms THEN rooms[r].tx ELSE NoChan

\* Task t holds a Sender of a channel that belongs to no Room of the
\* registry any more: a handle of an earlier incarnation of a room.
HoldsStaleSender(t) ==
    /\ tx[t] \in DOMAIN chans
    /\ \A r \in RoomIds : ChannelOf(r) # tx[t]

\* C11: a join_room that finds no Room for its identifier creates a fresh
\* one: no participants before the joiner is inserted (and only the joiner
\* once it is), and a channel that did not exist before, so that no Sender
\* or Receiver handed out earlier refers to it; and what a Receiver yields
\* was sent on that Receiver's own channel.  So nothing published through a
\* handle of an earlier incarnation reaches a subscriber of the new one, nor
\* the other way round.
C11_RejoinCreatesFreshRoom ==
    /\ [][ \A r \in RoomIds :
            (r \notin DOMAIN rooms /\ r \in DOMAIN rooms') =>
                /\ DOMAIN rooms'[r].users = {}
                /\ rooms'[r].tx \notin DOMAIN chans
                /\ rooms'[r].tx \in DOMAIN chans'
                /\ chans'[rooms'[r].tx] = NewChannel
                /\ \A t \in Tasks : tx[t] # rooms'[r].tx /\ rx[t].chan # rooms'[r].tx
         ]_vars
    /\ [][ \A t \in Tasks :
            /\ (pc[t] = "j60" /\ pc'[t] = "j63" /\ RoomUserIds(op[t].room) = {})
                    => DOMAIN rooms'[op[t].room].users = {op[t].user}
            /\ Len(sock'[t]) > Len(sock[t]) =>
                    sock'[t][Len(sock'[t])].ch = rx[t].chan
         ]_vars

\* C11 witness: a room has been removed and created again; one task still
\* holds the Sender of the first incarnation and has published through it,
\* and a subscriber of the second incarnation has received an event of the
\* second incarnation.
C11_Witness ==
    \E t1, t2 \in Tasks : \E r \in RoomIds :
        /\ t1 # t2
        /\ HoldsStaleSender(t1)
        /\ \E k \in 1..Len(chans[tx[t1]].buf) :
                chans[tx[t1]].buf[k].by = t1
                    /\ chans[tx[t1]].buf[k].msg.type = "CursorUpdate"
        /\ rx[t2].chan = ChannelOf(r) /\ rx[t2].chan # NoChan
        /\ joins[r] = 2 /\ leaves[r][UuidOf(t1)] = 1
        /\ Len(sock[t2]) > 0


\* The value a step has just written to t's socket.
Written(t) == sock'[t][Len(sock'[t])]
Wrote(t) == Len(sock'[t]) > Len(sock[t])

\* C12: rooms are isolated: whatever is written to the socket of a
\* participant subscribed to one room was published to that room (by a
\* join_room, a leave_room or a holder of that room's Sender), never to a
\* room with another identifier; and two rooms of the registry never share
\* a channel.
C12_RoomsIsolated ==
    /\ [][ \A t \in Tasks : Wrote(t) => Written(t).room = room_id[t] ]_vars
    /\ [](\A r1, r2 \in DOMAIN rooms : r1 # r2 => rooms[r1].tx # rooms[r2].tx)

\* C12 witness: two participants are subscribed to different rooms, events
\* have been published to both rooms, and one participant has received an
\* event of its room while an event of the other room is retained.
C12_Witness ==
    \E t1, t2 \in Tasks :
        /\ room_id[t1] \in RoomIds /\ room_id[t2] \in RoomIds
        /\ room_id[t1] # room_id[t2]
        /\ rx[t1].chan # NoChan /\ rx[t2].chan # NoChan
        /\ \E i \in 1..Len(sock[t1]) : sock[t1][i].room = room_id[t1]
        /\ \E k \in 1..Len(chans[rx[t2].chan].buf) :
                chans[rx[t2].chan].buf[k].room = room_id[t2]


LogFrame(f, text) ==
    IF ~text.wellFormed THEN "bad"
    ELSE IF f = "bad" THEN "goodAfterBad" ELSE NoFrame

InboundLogged(c) ==
    \E text \in CursorFrames :
        /\ InboundTextFrame(c, text)
        /\ frame' = [frame EXCEPT ![c] = LogFrame(@, text)]

FrameNext ==
    \E c \in Tasks :
        \/ Connect(c) \/ JoinStep(c) \/ Spawn(c) \/ SocketFail(c)
        \/ InboundLogged(c) \/ InboundPing(c)
        \/ InboundClose(c) \/ InboundEnd(c)
        \/ OutboundStep(c)

FrameSpec == Init /\ [][FrameNext]_vars

\* The inbound pump of c has just handled a text frame that changed the log.
HandledFrame(c) == frame'[c] # frame[c]

\* C14: a text frame that does not decode is discarded without effect:
\* nothing is published to any channel, nothing is written to any socket,
\* both pumps of the sender keep running and the handles stay; and a
\* CursorMove that follows on the same connection is published to the room
\* as the sender's CursorUpdate (stored whenever the room has a subscriber).
C14_MalformedFrameDropped ==
    [][ \A c \in Tasks :
          /\ (HandledFrame(c) /\ frame'[c] = "bad") =>
                /\ chans' = chans /\ rooms' = rooms /\ sock' = sock
                /\ inb'[c] = "running" /\ outb' = outb
                /\ tx' = tx /\ rx' = rx /\ pc' = pc
          /\ (HandledFrame(c) /\ frame'[c] = "goodAfterBad") =>
                /\ inb'[c] = "running"
                /\ chans' = SendOn(chans, tx[c], c, room_id[c],
                                   CursorUpdate(UuidOf(c), 10, 20))
                /\ RxCount(tx[c]) > 0 =>
                        chans'[tx[c]].tail = chans[tx[c]].tail + 1
      ]_vars

\* C14 witness: a connection sent a frame that does not decode and then a
\* CursorMove, and another connection of the room has been written the
\* CursorUpdate.
C14_Witness ==
    \E c, d \in Tasks :
        /\ c # d
        /\ frame[c] = "goodAfterBad" /\ inb[c] = "running"
        /\ tx[c] \in DOMAIN chans
        /\ Len(sock[d]) > 0
        /\ sock[d][Len(sock[d])].by = c
        /\ sock[d][Len(sock[d])].msg = CursorUpdate(UuidOf(c), 10, 20)
        /\ sock[d][Len(sock[d])].pos = chans[tx[c]].tail - 1



\* Every connection has joined and is served, all in one room.
AllInOneRoom ==
    /\ \A c \in Tasks : pc[c] = "served"
    /\ \A c, d \in Tasks : room_id[c] = room_id[d]

\* C16: with the connections joined to the same room, no connection's socket
\* carries a CursorUpdate that the connection itself published: a sender is
\* not echoed its own events.
C16_NoEchoToSender ==
    AllInOneRoom =>
        \A c \in Tasks : \A i \in 1..Len(sock[c]) :
            sock[c][i].msg.type = "CursorUpdate" => sock[c][i].by # c

(***************************************************************************)
(* Properties of the translated events (Spec).                             *)
(***************************************************************************)
\* A step has stored a value in channel ch; Stored(ch) is that value.
StoredOn(ch) == ch \in DOMAIN chans /\ chans'[ch].tail > chans[ch].tail
Stored(ch) == chans'[ch].buf[Len(chans'[ch].buf)]

\* The elements of a sequence.
Range(seq) == {seq[i] : i \in DOMAIN seq}

\* C15: the RoomState an inbound pump publishes for a SyncRequest lists the
\* participants the registry holds for the room at that time, the set
\* get_room_users returns.
C15_SyncRequestListsParticipants ==
    [][ \A ch \in DOMAIN chans :
            (StoredOn(ch) /\ Stored(ch).msg.type = "RoomState") =>
                Range(Stored(ch).msg.users) = get_room_users(Stored(ch).room)
      ]_vars


\* A step has stored the UserJoined an inbound pump makes of an UpdateName.
StoredNameUpdate(ch) ==
    /\ StoredOn(ch)
    /\ Stored(ch).msg.type = "UserJoined"
    /\ Stored(ch).msg.user.name # DefaultName(Stored(ch).msg.user.id)

\* C17: the UserJoined published for an UpdateName carries the sender's
\* identifier, the new name and the color generate_user_color gives for
\* that identifier (the color of the participant's join), never a blank one.
C17_NameUpdateKeepsColor ==
    [][ \A ch \in DOMAIN chans :
            StoredNameUpdate(ch) =>
                /\ Stored(ch).msg.user.id = UuidOf(Stored(ch).by)
                /\ Stored(ch).msg.user.name = Ann
                /\ Stored(ch).msg.user.color =
                        generate_user_color(Stored(ch).msg.user.id)
                /\ Stored(ch).msg.user.color # ""
      ]_vars

\* C18: once an UpdateName has been handled the registry holds the new name
\* for the sender (get_room_users reports it), and a stored name changes
\* in no other step between the participant's join and its leave.
C18_NameUpdateStored ==
    [][ /\ \A ch \in DOMAIN chans :
            StoredNameUpdate(ch) =>
                /\ Stored(ch).room \in DOMAIN rooms'
                /\ \E id \in DOMAIN rooms'[Stored(ch).room].users :
                    /\ id = Stored(ch).msg.user.id
                    /\ rooms'[Stored(ch).room].users[id].name
                            = Stored(ch).msg.user.name
        /\ \A r \in DOMAIN rooms : \A id \in DOMAIN rooms[r].users :
            (r \in DOMAIN rooms' /\ id \in DOMAIN rooms'[r].users
                    /\ rooms'[r].users[id].name # rooms[r].users[id].name)
                => \E ch \in DOMAIN chans : StoredNameUpdate(ch)
      ]_vars


\* The UserJoined of joiner j's join_room at position p of b's channel has
\* not been received by b's Receiver.
JoinInFlight(b, p) ==
    /\ rx[b].chan # NoChan
    /\ rx[b].next <= p
    /\ \E k \in 1..Len(chans[rx[b].chan].buf) :
        LET slot == chans[rx[b].chan].buf[k] IN
            slot.pos = p /\ slot.msg.type = "UserJoined"

\* b's backlog has overflowed (whether or not its outbound pump has been
\* spawned yet) or b's transport has failed.
Overflowed(b) ==
    \/ ~sockOpen[b] \/ outb[b] = "Lagged"
    \/ rx[b].chan # NoChan /\ Recv(rx[b]).kind = "Lagged"

\* Task t executes the send of join_room (room.rs:63) in this step.
JoinSends(t) == pc[t] = "j63" /\ pc'[t] = "j65"

\* On every socket a UserJoined is the one join_room made for its sender,
\* it is not the socket owner's own, and there is one per joiner at most.
JoinedOnce ==
    \A b \in Tasks : \A i, j \in 1..Len(sock[b]) :
        sock[b][i].msg.type = "UserJoined" =>
            /\ sock[b][i].by # b
            /\ sock[b][i].msg = UserJoined(NewUserInfo(UuidOf(sock[b][i].by)))
            /\ (sock[b][j].msg = sock[b][i].msg) => i = j

ByteValues == {0, 48, 49, 97, 255}

RECURSIVE SeqsUpTo(_, _)
SeqsUpTo(S, n) ==
    IF n = 0 THEN {<< >>}
    ELSE LET shorter == SeqsUpTo(S, n - 1) IN
            shorter \cup {Append(q, b) : q \in {x \in shorter : Len(x) = n - 1}, b \in S}

\* Identifiers, the empty one included.
Identifiers == SeqsUpTo(ByteValues, MaxIdLen)

ColorCall ==
    \E id \in Identifiers :
        /\ colorCalls < MaxColorCalls
        /\ colorArg' = id
        /\ colorRet' = ColorOfBytes(id)
        /\ colorCalls' = colorCalls + 1
        /\ UNCHANGED regVars /\ UNCHANGED connVars
        /\ UNCHANGED << joins, leaves, lastCall, frame >>

ColorNext == ColorCall

ColorSpec == Init /\ [][ColorNext]_vars

\* The sum of the bytes of an identifier, taken index by index.
SumOfBytes(bytes) == SumOver(bytes, DOMAIN bytes)

\* C20: generate_user_color is total and deterministic: for every
\* identifier, the empty one included, it returns the palette entry whose
\* index is the sum of the identifier's bytes modulo the palette size; a
\* second call with the same identifier returns the same color; the empty
\* identifier gets the first palette entry; and two identifiers exist whose
\* colors differ.
C20_ColorIsByteSumModPalette ==
    /\ [](colorCalls > 0 =>
            /\ \E k \in 0..(Len(colors) - 1) :
                    /\ k = SumOfBytes(colorArg) % Len(colors)
                    /\ colorRet = colors[k + 1]
            /\ colorArg = << >> => colorRet = colors[1]
            /\ \E a, b \in Identifiers : ColorOfBytes(a) # ColorOfBytes(b))
    /\ [][ (colorCalls > 0 /\ colorCalls' > colorCalls /\ colorArg' = colorArg)
                => colorRet' = colorRet ]_vars

\* C20 witness: the second call was given the empty identifier and returned
\* the first palette entry.
C20_Witness ==
    /\ colorCalls = 2
    /\ colorArg = << >>
    /\ colorRet = "#FF6B6B"

=============================================================================
